---------------------------- MODULE Spec2Model ----------------------------
(***************************************************************************)
(* A model of pdf_extractor.py: the paragraph chunker (_chunk_text), the   *)
(* Google Drive URL rewriting of the downloader, and the process_pdf       *)
(* pipeline with its output files and its metadata catalog.                *)
(*                                                                         *)
(* Python strings are sequences of one-character strings.  A path or a     *)
(* message built by an f-string is the sequence of its pieces, a chunk     *)
(* file chunk_<i:03d>.txt is named by i, and the md5 digests are those of  *)
(* the two sources of the model.  process_pdf chunks with the default      *)
(* size of 50000, so the texts of the model's PDF files make one chunk or  *)
(* none; _chunk_text on its own is checked with small sizes.               *)
(***************************************************************************)
EXTENDS Integers, Sequences, FiniteSets, TLC

(***************************************************************************)
(* Bounds of the model.                                                    *)
(***************************************************************************)
\* longest text given to _chunk_text
MaxLen == 7
\* largest chunk_size given to _chunk_text
MaxChunk == 8
\* most path and query pieces after the host of a URL given to _download_file
MaxPieces == 3
\* most runs of the program (a construction and one process_pdf call each)
MaxRuns == 2

(***************************************************************************)
(* Strings.                                                                *)
(***************************************************************************)
NL == "\n"
SP == " "
\* the characters of the texts that are chunked
TextChars == {"a", SP, NL}
\* str.strip() removes whitespace; of the characters used here, these
Whitespace == {SP, NL, "\t"}

RECURSIVE StringsUpTo(_, _)
\* every string over chars of length at most n
StringsUpTo(chars, n) ==
    IF n = 0 THEN {<<>>}
    ELSE LET shorter == StringsUpTo(chars, n - 1)
         IN  shorter \cup {Append(s, c) : s \in shorter, c \in chars}

\* s[i:] in Python, for a 1-based i
Tail_(s, i) == SubSeq(s, i, Len(s))

\* s.startswith(p)
StartsWith(s, p) == Len(p) <= Len(s) /\ SubSeq(s, 1, Len(p)) = p

\* s.find(sub) as a 1-based index, 0 when sub does not occur
Find(s, sub) ==
    LET hits == {i \in 1..(Len(s) - Len(sub) + 1) :
                    SubSeq(s, i, i + Len(sub) - 1) = sub}
    IN  IF hits = {} THEN 0
        ELSE CHOOSE i \in hits : \A j \in hits : i <= j

RECURSIVE Split(_, _)
\* s.split(sep): the pieces between non-overlapping occurrences of sep, found
\* left to right; always at least one piece
Split(s, sep) ==
    LET i == Find(s, sep)
    IN  IF i = 0 THEN <<s>>
        ELSE <<SubSeq(s, 1, i - 1)>> \o Split(Tail_(s, i + Len(sep)), sep)

RECURSIVE Join(_, _)
\* sep.join(parts)
Join(parts, sep) ==
    IF Len(parts) = 0 THEN <<>>
    ELSE IF Len(parts) = 1 THEN parts[1]
    ELSE parts[1] \o sep \o Join(Tail(parts), sep)

RECURSIVE LStrip(_)
LStrip(s) ==
    IF s # <<>> /\ Head(s) \in Whitespace THEN LStrip(Tail(s)) ELSE s

RECURSIVE RStrip(_)
RStrip(s) ==
    IF s # <<>> /\ s[Len(s)] \in Whitespace
    THEN RStrip(SubSeq(s, 1, Len(s) - 1)) ELSE s

\* s.strip()
Strip(s) == RStrip(LStrip(s))

(***************************************************************************)
(* _chunk_text                                                             *)
(***************************************************************************)
PARA_SEP == <<NL, NL>>

\* faulty variant: the two separator characters are not counted
ExceedsNoSeparator(current_chunk, para, size) ==
    Len(current_chunk) + Len(para) > size

\* faulty variant: the separator is counted twice
ExceedsTwoSeparators(current_chunk, para, size) ==
    Len(current_chunk) + Len(para) + 4 > size

\* the test of the loop: would the paragraph make the running chunk too long
Exceeds(current_chunk, para, size) ==
    Len(current_chunk) + Len(para) + 2 > size

\* faulty variant: the paragraphs of a chunk are joined by one newline
AddParagraphOneNewline(current_chunk, para) ==
    IF current_chunk # <<>> THEN current_chunk \o <<NL>> \o para ELSE para

\* current_chunk += "\n\n" + para if current_chunk else para
AddParagraph(current_chunk, para) ==
    IF current_chunk # <<>> THEN current_chunk \o PARA_SEP \o para
    ELSE current_chunk \o para

\* chunks.append(current_chunk.strip()), when current_chunk is not empty
Flush(chunk_list, current_chunk) ==
    IF current_chunk # <<>> THEN Append(chunk_list, Strip(current_chunk))
    ELSE chunk_list

RECURSIVE ChunkLoop(_, _, _, _)
\* the for loop over the paragraphs and the flush after it
ChunkLoop(paragraphs, current_chunk, chunk_list, size) ==
    IF paragraphs = <<>> THEN Flush(chunk_list, current_chunk)
    ELSE LET para == Head(paragraphs)
         IN  IF Exceeds(current_chunk, para, size)
             THEN ChunkLoop(Tail(paragraphs), para,
                            Flush(chunk_list, current_chunk), size)
             ELSE ChunkLoop(Tail(paragraphs), AddParagraph(current_chunk, para),
                            chunk_list, size)

Paragraphs(t) == Split(t, PARA_SEP)

ChunkTextOf(t, size) == ChunkLoop(Paragraphs(t), <<>>, <<>>, size)

(***************************************************************************)
(* _extract_google_drive_id, _get_google_drive_download_url and the URL    *)
(* that _download_file requests                                            *)
(***************************************************************************)
\* the class [a-zA-Z0-9_-] of the three patterns
IdChars ==
    {"a", "b", "c", "d", "e", "f", "g", "h", "i", "j", "k", "l", "m",
     "n", "o", "p", "q", "r", "s", "t", "u", "v", "w", "x", "y", "z",
     "A", "B", "C", "D", "E", "F", "G", "H", "I", "J", "K", "L", "M",
     "N", "O", "P", "Q", "R", "S", "T", "U", "V", "W", "X", "Y", "Z",
     "0", "1", "2", "3", "4", "5", "6", "7", "8", "9", "_", "-"}

\* the literal prefixes of the patterns, in the order of the list; each is
\* followed by the group ([a-zA-Z0-9_-]+)
FILE_D == <<"/", "f", "i", "l", "e", "/", "d", "/">>
ID_EQ == <<"i", "d", "=">>
OPEN_ID == <<"/", "o", "p", "e", "n", "?", "i", "d", "=">>
patterns == <<FILE_D, ID_EQ, OPEN_ID>>

\* the pattern (lit followed by one id character or more) matches at i
MatchesAt(s, lit, i) ==
    /\ i + Len(lit) <= Len(s)
    /\ SubSeq(s, i, i + Len(lit) - 1) = lit
    /\ s[i + Len(lit)] \in IdChars

\* re.search: the leftmost place the pattern matches, 0 when it does not
Search(s, lit) ==
    LET hits == {i \in 1..Len(s) : MatchesAt(s, lit, i)}
    IN  IF hits = {} THEN 0
        ELSE CHOOSE i \in hits : \A j \in hits : i <= j

\* match.group(1) of a match at i: the longest run of id characters (+ is
\* greedy) after the literal
Group1(s, lit, i) ==
    LET from == i + Len(lit)
        ends == {j \in from..Len(s) : \A k \in from..j : s[k] \in IdChars}
        to   == CHOOSE j \in ends : \A k \in ends : k <= j
    IN  SubSeq(s, from, to)

\* Python's None; a captured id is never empty, and the code tests the id
\* for truth only
None == <<>>

RECURSIVE FirstMatch(_, _)
FirstMatch(pats, u) ==
    IF pats = <<>> THEN None
    ELSE LET i == Search(u, Head(pats))
         IN  IF i # 0 THEN Group1(u, Head(pats), i)
             ELSE FirstMatch(Tail(pats), u)

\* _extract_google_drive_id(url)
ExtractGoogleDriveId(u) == FirstMatch(patterns, u)

DRIVE_DOWNLOAD == <<"h", "t", "t", "p", "s", ":", "/", "/", "d", "r", "i", "v", "e", ".", "g", "o", "o", "g", "l", "e", ".", "c", "o", "m", "/", "u", "c", "?", "e", "x", "p", "o", "r", "t", "=", "d", "o", "w", "n", "l", "o", "a", "d", "&", "i", "d", "=">>

\* _get_google_drive_download_url(file_id)
GoogleDriveDownloadUrl(file_id) == DRIVE_DOWNLOAD \o file_id

\* the url _download_file puts in its Request
RequestUrl(u) ==
    LET drive_id == ExtractGoogleDriveId(u)
    IN  IF drive_id # None THEN GoogleDriveDownloadUrl(drive_id) ELSE u

(***************************************************************************)
(* The URLs given to _download_file: a host followed by path and query     *)
(* pieces.                                                                 *)
(***************************************************************************)
DRIVE_HOST == <<"d", "r", "i", "v", "e", ".", "g", "o", "o", "g", "l", "e", ".", "c", "o", "m">>
OTHER_HOST == <<"e", "x", "a", "m", "p", "l", "e", ".", "c", "o", "m">>
UrlHosts == {<<"h", "t", "t", "p", "s", ":", "/", "/">> \o DRIVE_HOST,
             <<"h", "t", "t", "p", "s", ":", "/", "/">> \o OTHER_HOST}
UrlPieces ==
    {FILE_D, <<"/", "o", "p", "e", "n", "?">>, ID_EQ, <<"A", "B", "1">>,
     <<"x", "-", "_">>, <<"/", "v", "i", "e", "w">>, <<"&">>,
     <<"/", "d", ".", "p", "d", "f", "?">>}

RECURSIVE UrlsUpTo(_)
UrlsUpTo(n) ==
    IF n = 0 THEN UrlHosts
    ELSE LET shorter == UrlsUpTo(n - 1)
         IN  shorter \cup {u \o p : u \in shorter, p \in UrlPieces}

(***************************************************************************)
(* process_pdf: the values it computes                                     *)
(***************************************************************************)
\* chunk_size's default in _chunk_text, which process_pdf uses
DEFAULT_CHUNK_SIZE == 50000

\* the sources given to process_pdf
URL_SOURCE == <<"h", "t", "t", "p", ":", "/", "/", "a">>
LOCAL_SOURCE == <<"/", "p">>
Sources == {URL_SOURCE, LOCAL_SOURCE}

\* hashlib.md5(source.encode()).hexdigest()[:16] of the sources above
MD5_URL_SOURCE == <<"8", "2", "7", "9", "5", "f", "1", "1", "d", "2", "3", "1", "5", "a", "c", "2">>
MD5_LOCAL_SOURCE == <<"b", "8", "6", "4", "9", "3", "d", "2", "a", "e", "2", "5", "5", "a", "0", "2">>

\* _generate_doc_id(source)
GenerateDocId(src) ==
    IF src = URL_SOURCE THEN MD5_URL_SOURCE ELSE MD5_LOCAL_SOURCE

HTTP == <<"h", "t", "t", "p", ":", "/", "/">>
HTTPS == <<"h", "t", "t", "p", "s", ":", "/", "/">>

\* source.startswith(('http://', 'https://'))
IsUrl(src) == StartsWith(src, HTTP) \/ StartsWith(src, HTTPS)

\* re.sub(r'[^\w\-]', '_', output_name): of the ASCII characters, \w and '-'
\* are the letters, the digits, '_' and '-'
Sanitize(name) ==
    [i \in 1..Len(name) |-> IF name[i] \in IdChars THEN name[i] ELSE "_"]

\* safe_name: the sanitized output_name, or doc_id when no name is given
\* (None and "" are both false)
SafeName(src, output_name) ==
    IF output_name # None THEN Sanitize(output_name) ELSE GenerateDocId(src)

\* title or safe_name
TitleOr(title_arg, safe_name) == IF title_arg # None THEN title_arg ELSE safe_name

\* str(n) for n >= 0
RECURSIVE Str(_)
Str(n) ==
    LET digit == <<"0", "1", "2", "3", "4", "5", "6", "7", "8", "9">>
    IN  IF n < 10 THEN <<digit[n + 1]>>
        ELSE Str(n \div 10) \o <<digit[(n % 10) + 1]>>

PAGE_HEAD == <<"-", "-", "-", " ", "P", "a", "g", "e", " ">>
PAGE_TAIL == <<" ", "-", "-", "-", NL>>

RECURSIVE PageParts(_, _)
\* text_parts: f"--- Page {i + 1} ---\n{text}" for each page in order; a
\* page without text gives "" (extract_text() or "")
PageParts(pages, first) ==
    IF pages = <<>> THEN <<>>
    ELSE <<PAGE_HEAD \o Str(first) \o PAGE_TAIL \o Head(pages)>>
         \o PageParts(Tail(pages), first + 1)

\* _extract_text_pymupdf, _extract_text_pdfplumber, _extract_text_pypdf2:
\* ("\n\n".join(text_parts), page_count)
ExtractTextOf(pdf) ==
    [text |-> Join(PageParts(pdf.pages, 1), PARA_SEP), page_count |-> Len(pdf.pages)]

\* faulty variant: the most basic library is preferred
GetBestPdfLibraryReversed(flags) ==
    IF flags.pypdf2 THEN "pypdf2"
    ELSE IF flags.pdfplumber THEN "pdfplumber"
    ELSE IF flags.pymupdf THEN "pymupdf"
    ELSE "none"

\* _get_best_pdf_library, from HAS_PYMUPDF, HAS_PDFPLUMBER and HAS_PYPDF2
GetBestPdfLibrary(flags) ==
    IF flags.pymupdf THEN "pymupdf"
    ELSE IF flags.pdfplumber THEN "pdfplumber"
    ELSE IF flags.pypdf2 THEN "pypdf2"
    ELSE "none"

\* the message of the RuntimeError of extract_text, in its pieces
NO_LIBRARY_ERROR ==
    <<"No PDF library available. Install one of: ",
      "PyMuPDF (pip install pymupdf)", ", ",
      "pdfplumber (pip install pdfplumber)", ", or ",
      "PyPDF2 (pip install pypdf2)">>

\* the message of an exception a backend raises on a file it cannot parse
BACKEND_ERROR == <<"cannot parse the file">>

\* round(st_size / (1024 * 1024), 2), in hundredths of a megabyte: the
\* quotient is exact, and round() rounds an exact tie to the even neighbour
FileSizeMb(bytes) ==
    LET q == (bytes * 100) \div (1024 * 1024)
        r == (bytes * 100) % (1024 * 1024)
    IN  IF 2 * r > 1024 * 1024 \/ (2 * r = 1024 * 1024 /\ q % 2 = 1)
        THEN q + 1 ELSE q

\* github_paths of the result
GithubPaths(safe_name) ==
    [pdf       |-> <<"extracted_pdfs/pdfs/", safe_name, ".pdf">>,
     full_text |-> <<"extracted_pdfs/text/", safe_name, ".txt">>,
     chunks    |-> <<"extracted_pdfs/chunks/", safe_name, "/">>]

\* the failure results of process_pdf
DownloadFailed == [success |-> FALSE, error |-> <<"Download failed">>]
FileNotFound(src) == [success |-> FALSE, error |-> <<"File not found: ", src>>]
ExtractionFailed(e) ==
    [success |-> FALSE, error |-> <<"Text extraction failed: ">> \o e]

\* the result of a run that reached the end, from the arguments c and the
\* local variables l of the call, the chunks, the size of the PDF file, the
\* time and self.pdf_library
SuccessResult(c, l, chunk_list, pdf_bytes, now, library) ==
    LET safe_name == SafeName(c.source, c.output_name)
    IN  [success          |-> TRUE,
         doc_id           |-> GenerateDocId(c.source),
         source_url       |-> IF IsUrl(c.source) THEN c.source ELSE None,
         local_source     |-> IF ~IsUrl(c.source) THEN c.source ELSE None,
         title            |-> TitleOr(c.title, safe_name),
         tags             |-> c.tags,
         page_count       |-> l.page_count,
         character_count  |-> Len(l.extracted_text),
         chunk_count      |-> Len(chunk_list),
         file_size_mb     |-> FileSizeMb(pdf_bytes),
         extraction_date  |-> now,
         pdf_library_used |-> library,
         files            |-> [pdf         |-> <<"pdfs", safe_name>>,
                               full_text   |-> <<"text", safe_name>>,
                               chunks_dir  |-> <<"chunks", safe_name>>,
                               chunk_files |-> [i \in 1..Len(chunk_list) |->
                                                   <<"chunks", safe_name, i>>]],
         github_paths     |-> GithubPaths(safe_name)]

\* the catalog of a run that finds no metadata file
EmptyMetadata ==
    [last_updated |-> 0, document_count |-> 0, documents |-> <<>>]

\* the entry _update_metadata builds from a result
DocumentEntry(res) ==
    [doc_id          |-> res.doc_id,
     source_url      |-> res.source_url,
     local_source    |-> res.local_source,
     title           |-> res.title,
     tags            |-> res.tags,
     page_count      |-> res.page_count,
     character_count |-> res.character_count,
     chunk_count     |-> res.chunk_count,
     file_size_mb    |-> res.file_size_mb,
     extraction_date |-> res.extraction_date,
     github_paths    |-> res.github_paths]

\* d[key] = value, for a dict d
DictSet(d, key, value) ==
    [k \in DOMAIN d \cup {key} |-> IF k = key THEN value ELSE d[k]]

\* faulty variant: an entry that is there already keeps its fields, only the
\* counts and the date are refreshed
PutDocumentMerging(documents, res) ==
    IF res.doc_id \in DOMAIN documents
    THEN DictSet(documents, res.doc_id,
                 [documents[res.doc_id] EXCEPT
                     !.page_count = res.page_count,
                     !.character_count = res.character_count,
                     !.chunk_count = res.chunk_count,
                     !.file_size_mb = res.file_size_mb,
                     !.extraction_date = res.extraction_date])
    ELSE DictSet(documents, res.doc_id, DocumentEntry(res))

\* metadata["documents"][doc_id] = {...}
PutDocument(documents, res) == DictSet(documents, res.doc_id, DocumentEntry(res))

\* the metadata _update_metadata writes: the entry put, the count and the
\* time set
UpdatedMetadata(metadata, res, now) ==
    LET documents == PutDocument(metadata.documents, res)
    IN  [last_updated   |-> now,
         document_count |-> Cardinality(DOMAIN documents),
         documents      |-> documents]

\* the file chunk_{i:03d}.txt: its three header lines and the chunk
ChunkFile(i, chunk_list, title_arg, safe_name, by_run) ==
    [ordinal    |-> i,
     total      |-> Len(chunk_list),
     document   |-> TitleOr(title_arg, safe_name),
     characters |-> Len(chunk_list[i]),
     body       |-> chunk_list[i],
     written_by |-> by_run]

VARIABLES
    \* _chunk_text: its arguments, its return value, and whether it returned
    text, chunk_size, chunks, chunk_pc,
    \* _download_file: its url argument, the url of its Request, its return
    \* value, and where it is
    url, request_url, downloaded, download_pc,
    \* the environment of a run: HAS_PYMUPDF, HAS_PDFPLUMBER, HAS_PYPDF2
    has,
    \* self.pdf_library
    pdf_library,
    \* process_pdf: where it is, its arguments, its local variables and its
    \* return value
    pc, call, locals, result,
    \* the files under output_dir: pdfs/<name>.pdf, text/<name>.txt and
    \* chunks/<name>/chunk_<i>.txt, each a dict from <name>
    pdfs, texts, chunk_dirs,
    \* METADATA_FILE
    metadata_file,
    \* what datetime.now() returns next
    clock,
    \* history: the runs started, whether every finished run returned
    \* success, the values of the last successful run of each doc_id, the
    \* files as process_pdf found them, and the stages it has run
    run, all_success, last_run, before, stages

chunk_vars == <<text, chunk_size, chunks, chunk_pc>>
url_vars == <<url, request_url, downloaded, download_pc>>
pipeline_vars ==
    <<has, pdf_library, pc, call, locals, result, pdfs, texts, chunk_dirs,
      metadata_file, clock, run, all_success, last_run, before, stages>>

vars == <<chunk_vars, url_vars, pipeline_vars>>

ChunkInit ==
    /\ text \in StringsUpTo(TextChars, MaxLen)
    /\ chunk_size \in 0..MaxChunk
    /\ chunks = <<>>
    /\ chunk_pc = "call"

ChunkIdle ==
    /\ text = <<>>
    /\ chunk_size = 0
    /\ chunks = <<>>
    /\ chunk_pc = "unused"

\* a call of _chunk_text(text, chunk_size)
ChunkText ==
    /\ chunk_pc = "call"
    /\ chunks' = ChunkTextOf(text, chunk_size)
    /\ chunk_pc' = "returned"
    /\ UNCHANGED <<text, chunk_size>>
    /\ UNCHANGED <<url_vars, pipeline_vars>>


UrlInit ==
    /\ url \in UrlsUpTo(MaxPieces)
    /\ request_url = None
    /\ downloaded = FALSE
    /\ download_pc = "call"

UrlIdle ==
    /\ url = None
    /\ request_url = None
    /\ downloaded = FALSE
    /\ download_pc = "unused"

\* a call of _download_file(url, output_path): the request is made for the
\* rewritten url; the transfer succeeds, or raises and False is returned
DownloadFile ==
    /\ download_pc = "call"
    /\ request_url' = RequestUrl(url)
    /\ \/ downloaded' = TRUE
       \/ downloaded' = FALSE
    /\ download_pc' = "returned"
    /\ UNCHANGED url
    /\ UNCHANGED <<chunk_vars, pipeline_vars>>

(***************************************************************************)
(* process_pdf: the program as a state machine, a run being a              *)
(* construction of PDFExtractor followed by one call of process_pdf        *)
(***************************************************************************)

\* the arguments of the calls besides the source: none given, a title and
\* tags, and an output name (with a character to replace) as well
CallArguments ==
    {[output_name |-> None, title |-> None, tags |-> <<>>],
     [output_name |-> None, title |-> <<"T">>, tags |-> <<<<"x">>>>],
     [output_name |-> <<"r", " ">>, title |-> <<"T">>, tags |-> <<<<"x">>>>]}

\* what a source may hold when it is fetched: a PDF without pages, a PDF of
\* two pages (the second without text), and a file that is no PDF
EMPTY_PDF == [pages |-> <<>>, bytes |-> 1024, corrupt |-> FALSE]
TWO_PAGE_PDF ==
    [pages |-> <<<<"a", NL, NL, "b", SP>>, <<>>>>, bytes |-> 131072,
     corrupt |-> FALSE]
NOT_A_PDF == [pages |-> <<>>, bytes |-> 10, corrupt |-> TRUE]
SourceFiles == {EMPTY_PDF, TWO_PAGE_PDF, NOT_A_PDF}
\* a file whose writing was cut short
PARTIAL_PDF == [pages |-> <<>>, bytes |-> 0, corrupt |-> TRUE]
PARTIAL_TEXT == <<>>

NoCall == [source |-> None, output_name |-> None, title |-> None, tags |-> <<>>]
NoLocals ==
    [source_exists |-> TRUE, request_url |-> None, backend |-> "none",
     extracted_text |-> <<>>, page_count |-> 0]
NoResult == [success |-> FALSE, error |-> <<>>]
NoFlags == [pymupdf |-> FALSE, pdfplumber |-> FALSE, pypdf2 |-> FALSE]

Files == [pdfs |-> pdfs, texts |-> texts, chunk_dirs |-> chunk_dirs,
          metadata_file |-> metadata_file]

doc_id == GenerateDocId(call.source)
safe_name == SafeName(call.source, call.output_name)
is_url == IsUrl(call.source)

STAGE_ORDER == <<"fetch", "extract", "save_text", "save_chunks", "update_metadata">>

Ran(stage, outcome) == Append(stages, [stage |-> stage, outcome |-> outcome])

PipelineInit ==
    /\ has = NoFlags
    /\ pdf_library = "none"
    /\ pc = "idle"
    /\ call = NoCall
    /\ locals = NoLocals
    /\ result = NoResult
    /\ pdfs = <<>>
    /\ texts = <<>>
    /\ chunk_dirs = <<>>
    /\ metadata_file = [state |-> "absent", data |-> EmptyMetadata]
    /\ clock = 1
    /\ run = 0
    /\ all_success = TRUE
    /\ last_run = <<>>
    /\ before = [pdfs |-> <<>>, texts |-> <<>>, chunk_dirs |-> <<>>,
                 metadata_file |-> [state |-> "absent", data |-> EmptyMetadata]]
    /\ stages = <<>>

\* the module's imports and PDFExtractor.__init__
Construct ==
    /\ pc = "idle"
    /\ run < MaxRuns
    /\ \E flags \in [pymupdf : BOOLEAN, pdfplumber : BOOLEAN, pypdf2 : BOOLEAN] :
          /\ has' = flags
          /\ pdf_library' = GetBestPdfLibrary(flags)
    /\ pc' = "constructed"
    /\ run' = run + 1
    /\ UNCHANGED <<call, locals, result, pdfs, texts, chunk_dirs, metadata_file,
                   clock, all_success, last_run, before, stages>>
    /\ UNCHANGED <<chunk_vars, url_vars>>

\* the call process_pdf(source, output_name, title, tags), to the point where
\* the paths are set
ProcessPdf ==
    /\ pc = "constructed"
    /\ \E src \in Sources, args \in CallArguments :
          call' = [source |-> src, output_name |-> args.output_name,
                   title |-> args.title, tags |-> args.tags]
    /\ pc' = "fetch"
    /\ UNCHANGED <<has, pdf_library, locals, result, pdfs, texts, chunk_dirs,
                   metadata_file, clock, run, all_success, last_run, before,
                   stages>>
    /\ UNCHANGED <<chunk_vars, url_vars>>

\* if not self._download_file(source, pdf_path): return failure
AfterDownload(ok) == IF ok THEN "extract" ELSE "returned"

\* the download of a URL source: _download_file returns True with the file
\* written, or catches what was raised and returns False, the file untouched
\* or cut short
DownloadSource ==
    /\ pc = "fetch"
    /\ is_url
    /\ locals' = [locals EXCEPT !.request_url = RequestUrl(call.source)]
    /\ \/ /\ \E file \in SourceFiles : pdfs' = DictSet(pdfs, safe_name, file)
          /\ pc' = AfterDownload(TRUE)
          /\ stages' = Ran("fetch", "ok")
          /\ UNCHANGED result
       \/ /\ \/ UNCHANGED pdfs
             \/ pdfs' = DictSet(pdfs, safe_name, PARTIAL_PDF)
          /\ pc' = AfterDownload(FALSE)
          /\ stages' = Ran("fetch", "failed")
          /\ result' = DownloadFailed
    /\ UNCHANGED <<has, pdf_library, call, texts, chunk_dirs, metadata_file,
                   clock, run, all_success, last_run, before>>
    /\ UNCHANGED <<chunk_vars, url_vars>>

\* faulty variant: the source is never taken as missing
MissingSourceNever(exists) == FALSE

\* if not source_path.exists()
MissingSource(exists) == ~exists

\* a local source: a missing file is a failure; shutil.copy2 copies the file,
\* or raises with the copy not begun or cut short
CopySource ==
    /\ pc = "fetch"
    /\ ~is_url
    /\ \E exists \in BOOLEAN :
          /\ locals' = [locals EXCEPT !.source_exists = exists]
          /\ IF MissingSource(exists)
             THEN /\ result' = FileNotFound(call.source)
                  /\ pc' = "returned"
                  /\ stages' = Ran("fetch", "failed")
                  /\ UNCHANGED pdfs
             ELSE \/ /\ \E file \in SourceFiles :
                           pdfs' = DictSet(pdfs, safe_name, file)
                     /\ pc' = "extract"
                     /\ stages' = Ran("fetch", "ok")
                     /\ UNCHANGED result
                  \/ /\ \/ UNCHANGED pdfs
                        \/ pdfs' = DictSet(pdfs, safe_name, PARTIAL_PDF)
                     /\ pc' = "raised"
                     /\ stages' = Ran("fetch", "failed")
                     /\ UNCHANGED result
    /\ UNCHANGED <<has, pdf_library, call, texts, chunk_dirs, metadata_file,
                   clock, run, all_success, last_run, before>>
    /\ UNCHANGED <<chunk_vars, url_vars>>

\* extract_text(pdf_path): the backend of self.pdf_library is called and
\* returns the text and the page count or raises; without a library a
\* RuntimeError is raised
ExtractText(library, pdf) ==
    IF library = "none"
    THEN [raised |-> TRUE, error |-> NO_LIBRARY_ERROR, backend |-> "none",
          text |-> <<>>, page_count |-> 0]
    ELSE IF pdf.corrupt
    THEN [raised |-> TRUE, error |-> BACKEND_ERROR, backend |-> library,
          text |-> <<>>, page_count |-> 0]
    ELSE [raised |-> FALSE, error |-> <<>>, backend |-> library,
          text |-> ExtractTextOf(pdf).text,
          page_count |-> ExtractTextOf(pdf).page_count]

\* faulty variant: the exception is caught and the run goes on
AfterExtractGoesOn(raised) == "save_text"

\* except Exception as e: return failure
AfterExtract(raised) == IF raised THEN "returned" ELSE "save_text"

\* the try block around extract_text
Extract ==
    /\ pc = "extract"
    /\ LET got == ExtractText(pdf_library, pdfs[safe_name])
       IN  /\ locals' = [locals EXCEPT !.backend = got.backend,
                                       !.extracted_text = got.text,
                                       !.page_count = got.page_count]
           /\ pc' = AfterExtract(got.raised)
           /\ stages' = Ran("extract", IF got.raised THEN "failed" ELSE "ok")
           /\ result' = IF got.raised THEN ExtractionFailed(got.error) ELSE result
    /\ UNCHANGED <<has, pdf_library, call, pdfs, texts, chunk_dirs,
                   metadata_file, clock, run, all_success, last_run, before>>
    /\ UNCHANGED <<chunk_vars, url_vars>>

\* the full text is written to text_path; open or write may raise, outside
\* any try block
SaveText ==
    /\ pc = "save_text"
    /\ \/ /\ texts' = DictSet(texts, safe_name, locals.extracted_text)
          /\ pc' = "save_chunks"
          /\ stages' = Ran("save_text", "ok")
       \/ /\ \/ UNCHANGED texts
             \/ texts' = DictSet(texts, safe_name, PARTIAL_TEXT)
          /\ pc' = "raised"
          /\ stages' = Ran("save_text", "failed")
    /\ UNCHANGED <<has, pdf_library, call, locals, result, pdfs, chunk_dirs,
                   metadata_file, clock, run, all_success, last_run, before>>
    /\ UNCHANGED <<chunk_vars, url_vars>>

\* chunks = self._chunk_text(extracted_text)
chunk_list == ChunkTextOf(locals.extracted_text, DEFAULT_CHUNK_SIZE)

\* the directory chunks_dir as it is (empty when it is not there)
ChunkDir(dirs, name) == IF name \in DOMAIN dirs THEN dirs[name] ELSE <<>>

\* chunks_dir after the first n chunk files are written: a file of the same
\* ordinal is overwritten, every other file of the directory stays
ChunksWritten(dir, n) ==
    [i \in DOMAIN dir \cup 1..n |->
        IF i \in 1..n
        THEN ChunkFile(i, chunk_list, call.title, safe_name, run)
        ELSE dir[i]]

\* chunks_dir.mkdir and the chunk files, written in order; mkdir, open or
\* write may raise, outside any try block
SaveChunks ==
    /\ pc = "save_chunks"
    /\ \/ /\ chunk_dirs' = DictSet(chunk_dirs, safe_name,
                ChunksWritten(ChunkDir(chunk_dirs, safe_name), Len(chunk_list)))
          /\ pc' = "update_metadata"
          /\ stages' = Ran("save_chunks", "ok")
       \/ /\ \/ UNCHANGED chunk_dirs
             \/ \E n \in 0..(Len(chunk_list) - 1) :
                   chunk_dirs' = DictSet(chunk_dirs, safe_name,
                       ChunksWritten(ChunkDir(chunk_dirs, safe_name), n))
          /\ pc' = "raised"
          /\ stages' = Ran("save_chunks", "failed")
    /\ UNCHANGED <<has, pdf_library, call, locals, result, pdfs, texts,
                   metadata_file, clock, run, all_success, last_run, before>>
    /\ UNCHANGED <<chunk_vars, url_vars>>

\* the fields of a result that are the values of the run
RunFields ==
    {"doc_id", "source_url", "local_source", "title", "tags", "page_count",
     "character_count", "chunk_count", "file_size_mb", "extraction_date",
     "github_paths"}

\* the result is built, _update_metadata reads the catalog (a missing file
\* is an empty catalog, a file that is no JSON raises), puts the entry and
\* writes the catalog back (open or write may raise, the file untouched or
\* cut short); then the result is returned
UpdateMetadata ==
    /\ pc = "update_metadata"
    /\ LET res == SuccessResult(call, locals, chunk_list, pdfs[safe_name].bytes,
                                clock, pdf_library)
           metadata == IF metadata_file.state = "absent" THEN EmptyMetadata
                       ELSE metadata_file.data
       IN  \/ /\ metadata_file.state # "truncated"
              /\ metadata_file' =
                    [state |-> "valid",
                     data |-> UpdatedMetadata(metadata, res, clock + 1)]
              /\ result' = res
              /\ pc' = "returned"
              /\ stages' = Ran("update_metadata", "ok")
              /\ last_run' = DictSet(last_run, res.doc_id,
                    [values |-> [f \in RunFields |-> res[f]], run |-> run])
           \/ /\ \/ /\ metadata_file.state = "truncated"
                    /\ UNCHANGED metadata_file
                 \/ /\ metadata_file.state # "truncated"
                    /\ \/ UNCHANGED metadata_file
                       \/ metadata_file' =
                             [state |-> "truncated", data |-> EmptyMetadata]
              /\ pc' = "raised"
              /\ stages' = Ran("update_metadata", "failed")
              /\ UNCHANGED <<result, last_run>>
    /\ clock' = clock + 2
    /\ UNCHANGED <<has, pdf_library, call, locals, pdfs, texts, chunk_dirs,
                   run, all_success, before>>
    /\ UNCHANGED <<chunk_vars, url_vars>>

\* the end of the run: main exits with the result, or with the exception
Exit ==
    /\ pc \in {"returned", "raised"}
    /\ all_success' = (all_success /\ pc = "returned" /\ result.success)
    /\ pc' = "idle"
    /\ has' = NoFlags
    /\ pdf_library' = "none"
    /\ call' = NoCall
    /\ locals' = NoLocals
    /\ result' = NoResult
    /\ before' = Files
    /\ stages' = <<>>
    /\ UNCHANGED <<pdfs, texts, chunk_dirs, metadata_file, clock, run, last_run>>
    /\ UNCHANGED <<chunk_vars, url_vars>>

Next ==
    \/ Construct
    \/ ProcessPdf
    \/ DownloadSource
    \/ CopySource
    \/ Extract
    \/ SaveText
    \/ SaveChunks
    \/ UpdateMetadata
    \/ Exit

Init == PipelineInit /\ ChunkIdle /\ UrlIdle
Spec == Init /\ [][Next]_vars

SpecChunkInit == ChunkInit /\ UrlIdle /\ PipelineInit
SpecChunkNext == ChunkText
SpecChunk == SpecChunkInit /\ [][SpecChunkNext]_vars

SpecUrlInit == UrlInit /\ ChunkIdle /\ PipelineInit
SpecUrlNext == DownloadFile
SpecUrl == SpecUrlInit /\ [][SpecUrlNext]_vars

(***************************************************************************)
(* Claims about _chunk_text                                                *)
(***************************************************************************)
NonEmptyParagraph == \E i \in 1..Len(Paragraphs(text)) : Paragraphs(text)[i] # <<>>

\* every paragraph is non-empty and neither starts nor ends with whitespace
CleanParagraphs ==
    \A i \in 1..Len(Paragraphs(text)) :
        LET p == Paragraphs(text)[i] IN p # <<>> /\ Strip(p) = p

\* C1: a chunk is longer than chunk_size only if it is one paragraph of the
\* text that is itself longer than chunk_size.
C1_ChunkBound ==
    chunk_pc = "returned" =>
        \A i \in 1..Len(chunks) :
            \/ Len(chunks[i]) <= chunk_size
            \/ \E j \in 1..Len(Paragraphs(text)) :
                  /\ Len(Paragraphs(text)[j]) > chunk_size
                  /\ chunks[i] = Strip(Paragraphs(text)[j])

\* a text is cut into several chunks, one of them an oversized paragraph
\* and one of them exactly of the size
C1_Witness ==
    /\ chunk_pc = "returned"
    /\ chunk_size > 0
    /\ Len(chunks) >= 2
    /\ \E i \in 1..Len(chunks) : Len(chunks[i]) > chunk_size
    /\ \E i \in 1..Len(chunks) : Len(chunks[i]) = chunk_size

\* C2 as stated: joining the chunks with "\n\n" and splitting again gives the
\* paragraphs of the text, for every text.
C2_RoundTrip_Original ==
    chunk_pc = "returned" =>
        Split(Join(chunks, PARA_SEP), PARA_SEP) = Paragraphs(text)

\* C2 amended: the round trip gives the paragraphs of the text when every
\* paragraph is non-empty and has no leading or trailing whitespace.
C2_RoundTrip ==
    (chunk_pc = "returned" /\ CleanParagraphs) =>
        Split(Join(chunks, PARA_SEP), PARA_SEP) = Paragraphs(text)

\* a text of three clean paragraphs is cut into two chunks
C2_Witness ==
    /\ chunk_pc = "returned"
    /\ CleanParagraphs
    /\ Len(Paragraphs(text)) >= 3
    /\ Len(chunks) >= 2
    /\ Len(chunks) < Len(Paragraphs(text))

\* C3 as stated: a text shorter than chunk_size gives exactly one chunk, the
\* trimmed text.
C3_SmallText_Original ==
    (chunk_pc = "returned" /\ Len(text) < chunk_size) =>
        chunks = <<Strip(text)>>

\* C3 amended: a text shorter than chunk_size with a non-empty paragraph
\* gives exactly one chunk, the trimmed text; a text all of whose paragraphs
\* are empty (the empty text, or separators only) gives no chunk.
C3_SmallText ==
    (chunk_pc = "returned" /\ Len(text) < chunk_size) =>
        IF NonEmptyParagraph THEN chunks = <<Strip(text)>> ELSE chunks = <<>>

\* a text of several paragraphs with whitespace around it, shorter than
\* chunk_size, has been chunked
C3_Witness ==
    /\ chunk_pc = "returned"
    /\ Len(text) < chunk_size
    /\ Len(Paragraphs(text)) >= 2
    /\ Strip(text) # text
    /\ Strip(text) # <<>>
    /\ chunks = <<Strip(text)>>

(***************************************************************************)
(* Claim about the URL that is requested                                   *)
(***************************************************************************)
Contains(s, sub) == Find(s, sub) # 0

\* the url names the cloud drive and holds a file id in one of the forms
IsDriveShareLink(u) ==
    /\ Contains(u, DRIVE_HOST)
    /\ \E k \in 1..Len(patterns) : Search(u, patterns[k]) # 0

\* C9: a cloud-drive share link is requested as the direct-download URL of
\* the id its first matching pattern captures, and any other URL is
\* requested unchanged.
C9_UrlRewrite ==
    download_pc = "returned" =>
        IF IsDriveShareLink(url)
        THEN request_url = DRIVE_DOWNLOAD \o ExtractGoogleDriveId(url)
        ELSE request_url = url

\* what the code does: a URL of any host in which a pattern matches is
\* requested from the cloud drive
C9_AsCoded ==
    download_pc = "returned" =>
        IF \E k \in 1..Len(patterns) : Search(url, patterns[k]) # 0
        THEN request_url = DRIVE_DOWNLOAD \o ExtractGoogleDriveId(url)
        ELSE request_url = url

(***************************************************************************)
(* Claims about process_pdf and the catalog                                *)
(***************************************************************************)
ReturnedFailure == pc = "returned" /\ ~result.success
ReturnedSuccess == pc = "returned" /\ result.success

\* every run so far has returned a success result
OnlySuccessfulRuns ==
    /\ all_success
    /\ pc \in {"idle", "returned"}
    /\ pc = "returned" => result.success

\* C4: after successful runs only, the catalog holds one entry for each
\* doc_id processed and no other, each entry is the values of the last run of
\* its doc_id and nothing else, and document_count is the number of entries.
C4_CatalogMerge ==
    (OnlySuccessfulRuns /\ last_run # <<>>) =>
        /\ metadata_file.state = "valid"
        /\ DOMAIN metadata_file.data.documents = DOMAIN last_run
        /\ \A d \in DOMAIN last_run :
              LET entry == metadata_file.data.documents[d]
              IN  /\ DOMAIN entry = RunFields
                  /\ \A f \in RunFields : entry[f] = last_run[d].values[f]
                  /\ entry.doc_id = d
        /\ metadata_file.data.document_count = Cardinality(DOMAIN last_run)

\* the second run has processed the source of the first again, with another
\* title, another output name and another file, and has returned
C4_Witness ==
    /\ ReturnedSuccess
    /\ all_success
    /\ run = 2
    /\ doc_id \in DOMAIN before.metadata_file.data.documents
    /\ before.metadata_file.data.documents[doc_id].title # result.title
    /\ before.metadata_file.data.documents[doc_id].page_count # result.page_count
    /\ metadata_file.data.documents[doc_id].title = result.title
    /\ metadata_file.data.document_count = 1

\* C5: no exception escapes process_pdf; every failure is a returned result
\* with success = false and an error message.
C5_NoEscape ==
    /\ pc # "raised"
    /\ (stages # <<>> /\ stages[Len(stages)].outcome = "failed") =>
          (ReturnedFailure /\ result.error # <<>>)

\* the stages run so far are the first stages of the fixed order
InStageOrder ==
    /\ Len(stages) <= Len(STAGE_ORDER)
    /\ \A i \in 1..Len(stages) : stages[i].stage = STAGE_ORDER[i]

\* no stage has run after a stage that failed
StopsAtFailure ==
    \A i \in 1..(Len(stages) - 1) : stages[i].outcome = "ok"

\* C6: the stages run in the fixed order and none runs after one that
\* failed; a run that returns a failure result (the failure is then one of
\* fetch or extraction) has left the catalog, the full-text files and the
\* chunk files as they were.
C6_StagesInOrder ==
    /\ InStageOrder
    /\ StopsAtFailure
    /\ ReturnedFailure =>
          /\ stages[Len(stages)].outcome = "failed"
          /\ stages[Len(stages)].stage \in {"fetch", "extract"}
          /\ metadata_file = before.metadata_file
          /\ texts = before.texts
          /\ chunk_dirs = before.chunk_dirs

\* the extraction of a second run has failed, and the run has returned
\* with the catalog of the first run in place
C6_Witness ==
    /\ ReturnedFailure
    /\ Len(stages) = 2
    /\ stages[2] = [stage |-> "extract", outcome |-> "failed"]
    /\ metadata_file.state = "valid"
    /\ safe_name \in DOMAIN texts

\* C7: a source that is no URL and names no existing file gives the failure
\* result "File not found: <source>", and the run writes no file and leaves
\* the catalog as it was.
C7_MissingLocalFile ==
    (pc \notin {"idle", "constructed", "fetch"} /\ ~is_url
        /\ ~locals.source_exists) =>
        /\ pc = "returned"
        /\ result = [success |-> FALSE,
                     error |-> <<"File not found: ", call.source>>]
        /\ Files = before

\* a second run has found its local source missing, after a first run that
\* wrote files
C7_Witness ==
    /\ ReturnedFailure
    /\ ~is_url
    /\ ~locals.source_exists
    /\ before.pdfs # <<>>
    /\ before.metadata_file.state = "valid"

\* the library the priority PyMuPDF, pdfplumber, PyPDF2 selects
FirstInstalled ==
    CASE has.pymupdf -> "pymupdf"
      [] ~has.pymupdf /\ has.pdfplumber -> "pdfplumber"
      [] ~has.pymupdf /\ ~has.pdfplumber /\ has.pypdf2 -> "pypdf2"
      [] OTHER -> "none"

ExtractionReached == Len(stages) >= 2

\* C8: the library selected at construction is the first installed one in
\* the order PyMuPDF, pdfplumber, PyPDF2; it is the backend extract_text
\* calls and the one a success result records; with none installed the
\* extraction fails with the error that names the three packages and
\* process_pdf returns a failure result.
C8_BackendPriority ==
    (pc \notin {"idle"}) =>
        /\ pdf_library = FirstInstalled
        /\ ExtractionReached => locals.backend = FirstInstalled
        /\ ReturnedSuccess => result.pdf_library_used = FirstInstalled
        /\ (has = NoFlags /\ ExtractionReached) =>
              /\ ReturnedFailure
              /\ result.error = <<"Text extraction failed: ">> \o NO_LIBRARY_ERROR
              /\ \A package \in {"PyMuPDF (pip install pymupdf)",
                                 "pdfplumber (pip install pdfplumber)",
                                 "PyPDF2 (pip install pypdf2)"} :
                    \E i \in 1..Len(result.error) : result.error[i] = package
        /\ has = NoFlags => ~ReturnedSuccess

\* with pdfplumber and PyPDF2 installed and PyMuPDF not, a run has
\* succeeded
C8_Witness ==
    /\ ReturnedSuccess
    /\ has = [pymupdf |-> FALSE, pdfplumber |-> TRUE, pypdf2 |-> TRUE]
    /\ result.pdf_library_used = "pdfplumber"

\* the directory of the chunk files an entry names
EntryChunkDir(entry) == ChunkDir(chunk_dirs, entry.github_paths.chunks[2])

\* C10: after successful runs only, the chunk directory of every catalog
\* entry holds the chunk files 1..chunk_count and no other, each written by
\* the run that produced the entry.
C10_ChunkFilesMatchCatalog ==
    (OnlySuccessfulRuns /\ metadata_file.state = "valid") =>
        \A d \in DOMAIN metadata_file.data.documents :
            LET entry == metadata_file.data.documents[d]
                dir   == EntryChunkDir(entry)
            IN  /\ DOMAIN dir = 1..entry.chunk_count
                /\ \A i \in DOMAIN dir : dir[i].written_by = last_run[d].run

=============================================================================
